---- MODULE Spec2Model ----
(***************************************************************************)
(* Model of the token-sequence edit engine of TokenizedInput               *)
(* (src/src/index.tsx).  Strings are sequences of one-character strings;   *)
(* a token is a tagged record, Text(s) for a JavaScript string and         *)
(* Reference(k) for a { key: k } object.  Every handler of the component   *)
(* is one action; the values a handler reads from the host surface (the    *)
(* selection, the event's data, the clipboard) are drawn with \E.          *)
(***************************************************************************)
EXTENDS Integers, Sequences, FiniteSets, TLC

VARIABLES
  tokens,                 \* the caller-owned token sequence (prop tokens / setTokens)
  data,                   \* prop data: key -> displayText (the dictionary)
  lists,                  \* prop lists: sequence of [trigger, items]
  caseSensitive,          \* prop caseSensitive
  suggestions,            \* useState suggestions: sequence of [key, startPos]
  caretPos,               \* useRef caretPos
  insertTokenPos,         \* useRef insertTokenPos: [tokenIndex, caretPos]
  hoveredSuggestion,      \* useState hoveredSuggestion
  mouseDownOnSuggestion,  \* useRef mouseDownOnSuggestion
  shown,                  \* the value attribute the host surface was rendered with
  last                    \* the event whose handler ran last and was not rendered yet

vars == <<tokens, data, lists, caseSensitive, suggestions, caretPos,
          insertTokenPos, hoveredSuggestion, mouseDownOnSuggestion, shown, last>>

props == <<data, lists, caseSensitive>>

----------------------------------------------------------------------------
(* Bounds of the exploration. *)

\* longest flat value the bounded edits may produce
MaxLen == 3
\* longest flat value in the specification that types whole words
MaxWordLen == 9
MaxTokens == 3

----------------------------------------------------------------------------
(* Strings. *)

Min(a, b) == IF a < b THEN a ELSE b
Max(a, b) == IF a > b THEN a ELSE b
Clamp(n, len) == Max(0, Min(n, len))

\* String.prototype.substring(a, b): both ends clamped to [0, length], swapped
\* when a > b.
Substring(s, a, b) ==
  LET ca == Clamp(a, Len(s))
      cb == Clamp(b, Len(s))
  IN  SubSeq(s, Min(ca, cb) + 1, Max(ca, cb))

\* String.prototype.substring(a): to the end of the string.
SubstringFrom(s, a) == Substring(s, a, Len(s))

\* String.prototype.toLowerCase on the letters of the model's alphabet.
LowerChar(c) ==
  CASE c = "A" -> "a"
    [] c = "B" -> "b"
    [] OTHER -> c

toLowerCase(s) == [k \in 1..Len(s) |-> LowerChar(s[k])]

\* startsWith with receiver and argument the wrong way round
startsWithReversed(s, p) == Len(s) <= Len(p) /\ SubSeq(p, 1, Len(s)) = s

\* String.prototype.startsWith(searchString).
startsWith(s, p) == Len(p) <= Len(s) /\ SubSeq(s, 1, Len(p)) = p

\* String(undefined): what startsWith makes of an undefined search string.
UndefinedString == <<"u", "n", "d", "e", "f", "i", "n", "e", "d">>

----------------------------------------------------------------------------
(* Tokens. *)

Text(s) == [type |-> "text", text |-> s, key |-> ""]
Reference(k) == [type |-> "ref", text |-> <<>>, key |-> k]

\* typeof token === "string"
IsString(t) == t.type = "text"

\* typeof arr[idx] === "string" for a 0-based index that may be out of range
IsStringAt(arr, idx) == idx >= 0 /\ idx < Len(arr) /\ IsString(arr[idx + 1])

\* !arr[idx]: undefined (out of range) or the empty string
IsFalsyAt(arr, idx) ==
  \/ idx < 0
  \/ idx >= Len(arr)
  \/ (IsString(arr[idx + 1]) /\ arr[idx + 1].text = <<>>)

\* prop missingDataText (any non-empty string; the default is "{missing}")
missingDataText == <<"?">>

\* data[key]?.displayText ?? missingDataText  (lines 240, 281, 338)
DisplayNullish(t) ==
  IF t.key \in DOMAIN data THEN data[t.key] ELSE missingDataText

\* data[key]?.displayText || missingDataText  (lines 371, 521, 526)
DisplayOr(k) ==
  IF k \in DOMAIN data /\ data[k] # <<>> THEN data[k] ELSE missingDataText

\* the length the locator and the copy walk count for a token
TokenLength(t) == IF IsString(t) THEN Len(t.text) ELSE Len(DisplayNullish(t))

\* the text a token contributes to the flat value
TokenValue(t) == IF IsString(t) THEN t.text ELSE DisplayOr(t.key)

RECURSIVE value(_)
\* the flat value shown by the host surface: tokens.map(...).join("")
value(toks) ==
  IF toks = <<>> THEN <<>> ELSE TokenValue(Head(toks)) \o value(Tail(toks))

\* Array.prototype.toSpliced / splice(start, deleteCount, ...items), 0-based
toSpliced(arr, start, deleteCount, items) ==
  LET s == Clamp(start, Len(arr))
      d == Clamp(deleteCount, Len(arr) - s)
  IN  SubSeq(arr, 1, s) \o items \o SubSeq(arr, s + d + 1, Len(arr))

\* arr with the element at 0-based idx replaced
SetAt(arr, idx, x) == [arr EXCEPT ![idx + 1] = x]

----------------------------------------------------------------------------
(* Flat-offset locator: the scan shared by beforeInputCallback (lines      *)
(* 233-254) and handlePaste (lines 331-352).                               *)

RECURSIVE LocateLoop(_, _, _, _, _, _, _, _)
\* one iteration of for (j = 0; j < tokens.length; j++) with the loop state
\* (j, total, i, head); val is target.value
LocateLoop(toks, val, start, end, j, total, i, head) ==
  IF j >= Len(toks)
  THEN \* loop ran off the end: j === tokens.length
       [i    |-> IF i = -1 THEN Len(toks) ELSE i,
        j    |-> j,
        head |-> head,
        tail |-> SubstringFrom(val, end)]
  ELSE LET length == TokenLength(toks[j + 1])
           hit    == i = -1 /\ total + length > start
           i2     == IF hit THEN j ELSE i
           head2  == IF hit THEN Substring(val, total, start) ELSE head
       IN  IF total >= end
           THEN \* break
                [i    |-> IF i2 = -1 THEN Len(toks) ELSE i2,
                 j    |-> j,
                 head |-> head2,
                 tail |-> Substring(val, end, total)]
           ELSE LocateLoop(toks, val, start, end, j + 1, total + length, i2, head2)

\* a locator that forgets the head it cut off
LocateWithoutHead(toks, val, start, end) ==
  [LocateLoop(toks, val, start, end, 0, 0, -1, <<>>) EXCEPT !.head = <<>>]

\* val is target.value, the flat value the surface shows
Locate(toks, val, start, end) == LocateLoop(toks, val, start, end, 0, 0, -1, <<>>)

----------------------------------------------------------------------------
(* Suggestion matcher (lines 186-206).                                     *)

\* const defaultTrigger = /^@([^@]*)$/, and two triggers a caller may pass:
\* /^@(a[^@]*)$/, which wants an "a" after the marker, and /^@[^@]*$/, the
\* default's pattern without its capture group; and /^@(.*)$/, which lets the
\* captured text hold further markers
defaultTrigger == "default"
atLowerATrigger == "atLowerA"
noGroupTrigger == "nogroup"
atAnyTrigger == "atAny"

\* s.match(trigger): [matched, hasGroup, group]; group is match[1]
match(s, trigger) ==
  LET ok == /\ Len(s) >= 1
            /\ s[1] = "@"
            /\ trigger # atAnyTrigger => \A k \in 2..Len(s) : s[k] # "@"
            /\ trigger = atLowerATrigger => (Len(s) >= 2 /\ s[2] = "a")
  IN  [matched  |-> ok,
       hasGroup |-> trigger # noGroupTrigger,
       group    |-> IF ok /\ trigger # noGroupTrigger THEN Tail(s) ELSE <<>>]

\* list.trigger ?? defaultTrigger
TriggerOf(list) == IF list.trigger = "undefined" THEN defaultTrigger ELSE list.trigger

Thrown == [threw |-> TRUE, out |-> <<>>]
Found(sg) == [threw |-> FALSE, out |-> sg]

RECURSIVE KeyScan(_, _, _, _)
\* for (j = 0; j < beforeCaretText.length; j++) if (matches[j]) {...} for one key:
\* the suggestions it pushes (none or one), or the TypeError it raises
KeyScan(key, trigger, beforeCaretText, j) ==
  IF j >= Len(beforeCaretText) THEN Found(<<>>)
  ELSE LET m == match(SubstringFrom(beforeCaretText, j), trigger)
       IN  IF ~m.matched THEN KeyScan(key, trigger, beforeCaretText, j + 1)
           ELSE IF key \notin DOMAIN data
           THEN Thrown                       \* data[key].displayText of undefined
           ELSE IF caseSensitive
           THEN IF startsWith(data[key], IF m.hasGroup THEN m.group ELSE UndefinedString)
                THEN Found(<<[key |-> key, startPos |-> j]>>)
                ELSE KeyScan(key, trigger, beforeCaretText, j + 1)
           ELSE IF ~m.hasGroup
           THEN Thrown                       \* undefined.toLowerCase()
           ELSE IF startsWith(toLowerCase(data[key]), toLowerCase(m.group))
                THEN Found(<<[key |-> key, startPos |-> j]>>)
                ELSE KeyScan(key, trigger, beforeCaretText, j + 1)

RECURSIVE ItemsScan(_, _, _)
\* for (const key of list.items)
ItemsScan(items, trigger, beforeCaretText) ==
  IF items = <<>> THEN Found(<<>>)
  ELSE LET first == KeyScan(Head(items), trigger, beforeCaretText, 0)
       IN  IF first.threw THEN Thrown
           ELSE LET rest == ItemsScan(Tail(items), trigger, beforeCaretText)
                IN  IF rest.threw THEN Thrown ELSE Found(first.out \o rest.out)

RECURSIVE ListsScanReversed(_, _)
\* the lists walked with each list's suggestions put in front of the earlier ones
ListsScanReversed(ls, beforeCaretText) ==
  IF ls = <<>> THEN Found(<<>>)
  ELSE LET first == ItemsScan(Head(ls).items, TriggerOf(Head(ls)), beforeCaretText)
       IN  IF first.threw THEN Thrown
           ELSE LET rest == ListsScanReversed(Tail(ls), beforeCaretText)
                IN  IF rest.threw THEN Thrown ELSE Found(rest.out \o first.out)

RECURSIVE ListsScan(_, _)
\* for (const list of lists)
ListsScan(ls, beforeCaretText) ==
  IF ls = <<>> THEN Found(<<>>)
  ELSE LET first == ItemsScan(Head(ls).items, TriggerOf(Head(ls)), beforeCaretText)
       IN  IF first.threw THEN Thrown
           ELSE LET rest == ListsScan(Tail(ls), beforeCaretText)
                IN  IF rest.threw THEN Thrown ELSE Found(first.out \o rest.out)

----------------------------------------------------------------------------
(* Splice engine: updateTokensAndSuggestions (lines 142-213).              *)

\* lines 179-183 without the test of line 180: newTokens[i] stays
SpliceKeep(new2, i2, n, bct2) ==
  [newTokens |-> new2, tokenIndex |-> i2 + n - 1, beforeCaretText |-> bct2]

\* lines 179-183: drop an empty or missing newTokens[i]
SpliceDrop(new2, i2, n, bct2) ==
  LET drop == IsFalsyAt(new2, i2)
  IN  [newTokens       |-> IF drop THEN toSpliced(new2, i2, 1, <<>>) ELSE new2,
       tokenIndex      |-> IF drop THEN i2 + n - 2 ELSE i2 + n - 1,
       beforeCaretText |-> bct2]

\* lines 172-178: merge newTokens[i] into a string before it
SpliceMergePrev(new1, i, n, bct1) ==
  IF IsStringAt(new1, i) /\ IsStringAt(new1, i - 1)
  THEN SpliceDrop(toSpliced(SetAt(new1, i - 1, Text(new1[i].text \o new1[i + 1].text)),
                            i, 1, <<>>),
                  i - 1, n,
                  IF n = 1 THEN new1[i].text \o bct1 ELSE bct1)
  ELSE SpliceDrop(new1, i, n, bct1)

\* lines 168-171: merge a string after the inserted tokens into the last of them
SpliceMergeNext(new0, i, n, lastIsStr, bct1) ==
  IF lastIsStr /\ IsStringAt(new0, i + n)
  THEN SpliceMergePrev(toSpliced(SetAt(new0, i + n - 1,
                                       Text(new0[i + n].text \o new0[i + n + 1].text)),
                                 i + n, 1, <<>>),
                       i, n, bct1)
  ELSE SpliceMergePrev(new0, i, n, bct1)

\* lines 163-167: fold head into insertTokens and splice them in
SpliceHead(toks, head, ins1, i, j, lastIsStr, bct1) ==
  LET ins2 == IF IsString(ins1[1])
              THEN SetAt(ins1, 0, Text(head \o ins1[1].text))
              ELSE IF head # <<>> THEN <<Text(head)>> \o ins1 ELSE ins1
  IN  SpliceMergeNext(toSpliced(toks, i, j - i, ins2), i, Len(ins2), lastIsStr, bct1)

\* lines 151-183: the new token sequence, the caret's token index and the text
\* before the caret
Splice(toks, head, insertTokens, tail, i, j) ==
  LET lastToken == insertTokens[Len(insertTokens)]
  IN  IF IsString(lastToken)
      THEN \* lines 154-157
           SpliceHead(toks, head,
                      SetAt(insertTokens, Len(insertTokens) - 1,
                            Text(lastToken.text \o tail)),
                      i, j, TRUE,
                      IF Len(insertTokens) = 1 THEN head \o lastToken.text
                      ELSE lastToken.text)
      ELSE \* lines 159-161
           SpliceHead(toks, head,
                      IF tail # <<>> THEN Append(insertTokens, Text(tail))
                      ELSE insertTokens,
                      i, j, FALSE, <<>>)

\* the whole of updateTokensAndSuggestions: what it leaves in every piece of
\* state; when the matcher throws, only setTokens (line 184) has happened
\* (closed is the tokens prop the callback closes over, dependency list line 213)
updateTokensAndSuggestionsOver(closed, head, insertTokens, length, tail, start, i, j) ==
  LET sp == Splice(closed, head, insertTokens, tail, i, j)
      sc == ListsScan(lists, sp.beforeCaretText)
  IN  [newTokens       |-> sp.newTokens,
       beforeCaretText |-> sp.beforeCaretText,
       threw           |-> sc.threw,
       suggestions     |-> IF sc.threw THEN suggestions ELSE sc.out,
       hoveredSuggestion |-> IF sc.threw THEN hoveredSuggestion ELSE 0,
       mouseDownOnSuggestion |-> IF sc.threw THEN mouseDownOnSuggestion ELSE FALSE,
       caretPos        |-> IF sc.threw THEN caretPos ELSE start + length,
       insertTokenPos  |-> IF sc.threw THEN insertTokenPos
                           ELSE [tokenIndex |-> sp.tokenIndex,
                                 caretPos   |-> Len(sp.beforeCaretText)]]

\* the callback of the current render closes over the current tokens
updateTokensAndSuggestions(head, insertTokens, length, tail, start, i, j) ==
  updateTokensAndSuggestionsOver(tokens, head, insertTokens, length, tail, start, i, j)

----------------------------------------------------------------------------
(* Clipboard codec: the walk of handleCopy (lines 273-308).                *)

\* result.push(x) or result[result.length - 1] += x for a string x
PushText(result, x) ==
  IF result # <<>> /\ IsString(result[Len(result)])
  THEN SetAt(result, Len(result) - 1, Text(result[Len(result)].text \o x))
  ELSE Append(result, Text(x))

RECURSIVE CopyLoop(_, _, _, _, _, _)
\* for (const token of tokens) with the loop state (result, length, total)
CopyLoop(toks, start, end, result, length, total) ==
  IF toks = <<>> THEN [tokens |-> result, length |-> length]
  ELSE LET token == Head(toks)
           text  == IF IsString(token) THEN token.text ELSE DisplayNullish(token)
           tokenTextLength == Len(text)
       IN  IF total < start
           THEN IF total + tokenTextLength > start
                THEN LET part == Substring(text, start - total,
                                           Min(tokenTextLength, end - total))
                     IN  CopyLoop(Tail(toks), start, end, Append(result, Text(part)),
                                  length + Len(part), total + tokenTextLength)
                ELSE CopyLoop(Tail(toks), start, end, result, length,
                              total + tokenTextLength)
           ELSE IF total < end
           THEN IF total + tokenTextLength <= end
                THEN CopyLoop(Tail(toks), start, end,
                              IF IsString(token) THEN PushText(result, token.text)
                              ELSE Append(result, token),
                              length + tokenTextLength, total + tokenTextLength)
                ELSE LET part == Substring(text, 0, end - total)
                     IN  CopyLoop(Tail(toks), start, end, PushText(result, part),
                                  length + Len(part), total + tokenTextLength)
           ELSE [tokens |-> result, length |-> length]      \* break

\* the PasteData that handleCopy serialises for a non-empty selection
CopyPayload(toks, start, end) == CopyLoop(toks, start, end, <<>>, 0, 0)

----------------------------------------------------------------------------
(* Suggestion applicator: the setTokens updater of applySuggestion         *)
(* (lines 359-369).                                                        *)

\* the updater cutting the text at the suggestion's start where it should cut
\* at the caret, so that the marker and the query stay behind the reference
applySuggestionTokensKeepingQuery(currentTokens, tokenIndex, cp, suggestion) ==
  LET text == currentTokens[tokenIndex + 1].text
      rest == Substring(text, suggestion.startPos, Len(text))
      t1   == [currentTokens EXCEPT ![tokenIndex + 1] = [type |-> "text", text |-> rest, key |-> ""]]
      t3   == SubSeq(t1, 1, tokenIndex) \o <<[type |-> "ref", text |-> <<>>, key |-> suggestion.key]>>
              \o SubSeq(t1, tokenIndex + 1, Len(t1))
  IN  IF suggestion.startPos # 0
      THEN SubSeq(t3, 1, tokenIndex)
           \o <<[type |-> "text", text |-> Substring(text, 0, suggestion.startPos), key |-> ""]>>
           \o SubSeq(t3, tokenIndex + 1, Len(t3))
      ELSE t3

applySuggestionTokens(currentTokens, tokenIndex, cp, suggestion) ==
  LET text == currentTokens[tokenIndex + 1].text
      rest == Substring(text, cp, Len(text))
      t1   == SetAt(currentTokens, tokenIndex, Text(rest))
      t2   == IF rest = <<>> THEN toSpliced(t1, tokenIndex, 1, <<>>) ELSE t1
      t3   == toSpliced(t2, tokenIndex, 0, <<Reference(suggestion.key)>>)
  IN  IF suggestion.startPos # 0
      THEN toSpliced(t3, tokenIndex, 0, <<Text(Substring(text, 0, suggestion.startPos))>>)
      ELSE t3

----------------------------------------------------------------------------
(* The event being handled: what the handler read from it and what it      *)
(* handed back to the host.                                                *)

\* what getData("application/json") returns: "" (no such payload), a string
\* JSON.parse rejects, or the JSON text of an object that may lack tokens or
\* length
NoPayload == [form |-> "absent", hasTokens |-> FALSE, tokens |-> <<>>,
              hasLength |-> FALSE, length |-> 0]
InvalidJSON == [NoPayload EXCEPT !.form = "invalid"]
JSONText(hasTokens, toks, hasLength, length) ==
  [form |-> "json", hasTokens |-> hasTokens, tokens |-> toks,
   hasLength |-> hasLength, length |-> length]

NoClip == [tokens |-> <<>>, length |-> -1]
NoSuggestion == [key |-> "", startPos |-> -1]

Event(kind) ==
  [kind      |-> kind,       \* the handler and the event's kind
   start     |-> -2,         \* selection the locator was given (after start-- / end++)
   end       |-> -2,
   ins       |-> <<>>,       \* insertTokens as passed to the splice engine
   len       |-> -2,         \* the length argument of the splice engine
   threw     |-> FALSE,      \* the handler ended in an exception
   prevented |-> FALSE,      \* event.preventDefault() was called
   clip      |-> NoClip,     \* payload handed to clipboardData.setData
   got       |-> NoPayload,  \* what clipboardData.getData returned
   sg        |-> NoSuggestion,   \* suggestion applied
   from      |-> <<>>]       \* the tokens the handler's closure held

Idle == Event("idle")

----------------------------------------------------------------------------
(* Handlers.  An event is dispatched when the previous one has been        *)
(* rendered (last = Idle).                                                 *)

\* selections the host surface can report: 0 <= start <= end <= value.length
Selections == {se \in (0..Len(shown)) \X (0..Len(shown)) : se[1] <= se[2]}

SelectionStarts == 0..Len(shown)

\* the call updateTokensAndSuggestions(head, insertTokens, length, tail, start, i, j)
\* made after the locator ran on [start, end), for the event ev; maxLen caps
\* the flat value
SpliceEdit(ev, start, end, insertTokens, length, maxLen) ==
  /\ last = Idle
  /\ \E loc \in {Locate(tokens, shown, start, end)} :
     \E r \in {updateTokensAndSuggestions(loc.head, insertTokens, length, loc.tail,
                                        start, loc.i, loc.j)} :
      /\ Len(value(r.newTokens)) <= maxLen
      /\ tokens' = r.newTokens
      /\ suggestions' = r.suggestions
      /\ hoveredSuggestion' = r.hoveredSuggestion
      /\ mouseDownOnSuggestion' = r.mouseDownOnSuggestion
      /\ caretPos' = r.caretPos
      /\ insertTokenPos' = r.insertTokenPos
      /\ last' = [ev EXCEPT !.start = start, !.end = end,
                              !.ins = insertTokens, !.len = length,
                              !.threw = r.threw, !.prevented = TRUE,
                              !.from = tokens]
      /\ UNCHANGED <<props, shown>>

\* a handler that returns before touching anything
Ignored(ev) ==
  /\ last = Idle
  /\ last' = ev
  /\ UNCHANGED <<tokens, props, suggestions, caretPos, insertTokenPos,
                 hoveredSuggestion, mouseDownOnSuggestion, shown>>

\* beforeInputCallback (lines 215-256) for an event with data === null
beforeInputNull(inputType, selectionStart, selectionEnd, maxLen) ==
  LET collapsed == selectionStart = selectionEnd
      start == IF collapsed /\ inputType = "deleteContentBackward"
               THEN selectionStart - 1 ELSE selectionStart
      end   == IF collapsed /\ inputType = "deleteContentForward"
               THEN selectionEnd + 1 ELSE selectionEnd
  IN  SpliceEdit(Event(inputType), start, end, <<Text(<<>>)>>, 0, maxLen)

\* beforeInputCallback for an event that carries data
beforeInputData(inputType, text, selectionStart, selectionEnd, maxLen) ==
  SpliceEdit(Event(inputType), selectionStart, selectionEnd, <<Text(text)>>,
             Len(text), maxLen)

\* beforeInputCallback without the early return: the event carries no data and
\* is handled as a deletion of the selection, here the whole value
beforeInputDragAsDeletion(inputType) ==
  SpliceEdit(Event(inputType), 0, Len(shown), <<Text(<<>>)>>, 0, Len(shown))

\* beforeInputCallback, the early return of lines 219-220
beforeInputDrag(inputType) == Ignored([Event(inputType) EXCEPT !.prevented = TRUE])

\* handleCopy (lines 266-309)
handleCopy(start, end) ==
  Ignored([Event("copy") EXCEPT !.start = start, !.end = end, !.prevented = TRUE,
                                 !.clip = IF start = end THEN NoClip
                                          ELSE CopyPayload(tokens, start, end)])

\* handleCut (lines 311-315): handleCopy, then beforeInputCallback({ data: "" })
handleCut(start, end, maxLen) ==
  SpliceEdit([Event("cut") EXCEPT !.clip = IF start = end THEN NoClip
                                            ELSE CopyPayload(tokens, start, end)],
             start, end, <<Text(<<>>)>>, 0, maxLen)

\* JSON.stringify({ tokens: result, length }) of line 308
stringify(pasteData) == JSONText(TRUE, pasteData.tokens, TRUE, pasteData.length)

\* handlePaste without the test of pasteData.length
handlePasteAnyLength(pasteDataStr, start, end, maxLen) ==
  IF \/ pasteDataStr.form = "absent"
     \/ pasteDataStr.form = "invalid"
     \/ ~pasteDataStr.hasTokens
  THEN Ignored([Event("paste") EXCEPT !.got = pasteDataStr])
  ELSE SpliceEdit([Event("paste") EXCEPT !.got = pasteDataStr], start, end,
                  pasteDataStr.tokens, pasteDataStr.length, maxLen)

\* handlePaste (lines 317-355); the catch of line 354 swallows both a failing
\* JSON.parse and an exception of the matcher
handlePaste(pasteDataStr, start, end, maxLen) ==
  IF \/ pasteDataStr.form = "absent"                       \* lines 320-321
     \/ pasteDataStr.form = "invalid"                      \* line 324 throws
     \/ ~pasteDataStr.hasTokens                            \* lines 325-326
     \/ ~pasteDataStr.hasLength
     \/ pasteDataStr.length = 0
  THEN Ignored([Event("paste") EXCEPT !.got = pasteDataStr])
  ELSE SpliceEdit([Event("paste") EXCEPT !.got = pasteDataStr], start, end,
                  pasteDataStr.tokens, pasteDataStr.length, maxLen)

\* applySuggestion (lines 357-375); selectionStart is ref.current.selectionStart.
\* The setTokens updater raises a TypeError when the anchored token is not a
\* string; the statements after setTokens have run by then.
applySuggestion(kind, suggestion, selectionStart) ==
  LET tokenIndex == insertTokenPos.tokenIndex
      cp == insertTokenPos.caretPos
      ok == IsStringAt(tokens, tokenIndex)
  IN  /\ last = Idle
      /\ tokens' = IF ok THEN applySuggestionTokens(tokens, tokenIndex, cp, suggestion)
                   ELSE tokens
      /\ caretPos' = selectionStart - cp + suggestion.startPos
                     + Len(DisplayOr(suggestion.key))
      /\ suggestions' = <<>>
      /\ mouseDownOnSuggestion' = FALSE
      /\ last' = [Event(kind) EXCEPT !.start = selectionStart, !.sg = suggestion,
                                      !.threw = ~ok, !.prevented = kind = "Enter"]
      /\ UNCHANGED <<props, insertTokenPos, hoveredSuggestion, shown>>

\* a handler that only writes transient state
Transient(kind, newSuggestions, newHovered, newMouseDown, prevented) ==
  /\ last = Idle
  /\ suggestions' = newSuggestions
  /\ hoveredSuggestion' = newHovered
  /\ mouseDownOnSuggestion' = newMouseDown
  /\ last' = [Event(kind) EXCEPT !.prevented = prevented]
  /\ UNCHANGED <<tokens, props, caretPos, insertTokenPos, shown>>

\* handleKeyDown (lines 380-416), one action per branch of the switch
keyDownArrowUp ==
  /\ Len(suggestions) # 0
  /\ Transient("ArrowUp", suggestions,
               IF hoveredSuggestion # 0 THEN hoveredSuggestion - 1
               ELSE Len(suggestions) - 1,
               mouseDownOnSuggestion, TRUE)

\* the ArrowDown branch without the wrap of line 395
keyDownArrowDownNoWrap ==
  /\ Len(suggestions) # 0
  /\ Transient("ArrowDown", suggestions, hoveredSuggestion + 1,
               mouseDownOnSuggestion, TRUE)

keyDownArrowDown ==
  /\ Len(suggestions) # 0
  /\ Transient("ArrowDown", suggestions,
               IF hoveredSuggestion = Len(suggestions) - 1 THEN 0
               ELSE hoveredSuggestion + 1,
               mouseDownOnSuggestion, TRUE)

keyDownArrowLeftRight(key) ==
  /\ Len(suggestions) # 0
  /\ Transient(key, <<>>, hoveredSuggestion, FALSE, FALSE)

keyDownEscape ==
  /\ Len(suggestions) # 0
  /\ Transient("Escape", <<>>, hoveredSuggestion, FALSE, TRUE)

keyDownEnter(selectionStart) ==
  /\ Len(suggestions) # 0
  /\ hoveredSuggestion < Len(suggestions)
  /\ applySuggestion("Enter", suggestions[hoveredSuggestion + 1], selectionStart)

\* handleKeyDown when the suggestion list is empty (lines 382-383), or for a key
\* the switch has no case for
keyDownOther == Transient("keydown", suggestions, hoveredSuggestion,
                          mouseDownOnSuggestion, FALSE)

\* handleClick (lines 424-428)
handleClick == Transient("click", <<>>, hoveredSuggestion, FALSE, FALSE)

\* handleBlur (lines 430-435) for a focus loss other than the one a mouse press
\* on a suggestion causes (that one is part of suggestionMouseDown)
handleBlur ==
  Transient("blur", IF ~mouseDownOnSuggestion THEN <<>> ELSE suggestions,
            hoveredSuggestion, mouseDownOnSuggestion, FALSE)

\* the props given to each rendered Suggestion (lines 643-645)
suggestionMouseEnter(idx) ==
  Transient("mouseenter", suggestions, idx, mouseDownOnSuggestion, FALSE)

\* onMouseDown of a Suggestion (line 644), together with the focus loss the
\* press causes: handleBlur then finds the latch set and does nothing (line 431)
suggestionMouseDown ==
  /\ Len(suggestions) # 0
  /\ Transient("mousedown", suggestions, hoveredSuggestion, TRUE, FALSE)

suggestionSelect(idx, selectionStart) ==
  applySuggestion("select", suggestions[idx + 1], selectionStart)

\* the render that follows a handler: the surface gets the new flat value and
\* the effect of lines 530-539, which runs when the value changed, moves the
\* caret to caretPos and resets it
render ==
  /\ last # Idle
  /\ shown' = value(tokens)
  /\ caretPos' = IF value(tokens) # shown /\ caretPos # -1 THEN -1 ELSE caretPos
  /\ last' = Idle
  /\ UNCHANGED <<tokens, props, suggestions, insertTokenPos, hoveredSuggestion,
                 mouseDownOnSuggestion>>

----------------------------------------------------------------------------
(* The component with a two-letter keyboard.                               *)

\* the dictionary: a resolved key and a key whose display text is empty;
\* "gone" is a key with no entry
SmallData == ("ann" :> <<"A", "a">>) @@ ("emp" :> <<>>)

DefaultList(items) == [trigger |-> "undefined", items |-> items]

\* the lists the caller passes: a list under the default trigger whose item is
\* resolved, and a list under a narrower trigger with an item that has no
\* dictionary entry
SmallLists ==
  << DefaultList(<<"ann">>),
     [trigger |-> atLowerATrigger, items |-> <<"gone">>] >>

\* texts a beforeinput event carries
TypedTexts == {<<"@">>, <<"a">>}

\* token sequences of the payloads on the clipboard: a text, a resolved
\* reference, a reference with no dictionary entry, and a reference whose
\* display text is empty followed by a text
PayloadTokens ==
  { <<Text(<<"a">>)>>, <<Reference("ann")>>, <<Reference("gone")>>,
    <<Reference("emp"), Text(<<"a">>)>> }

\* I1 and I2 of a token sequence
Normalized(toks) ==
  /\ \A k \in 1..Len(toks) : IsString(toks[k]) => toks[k].text # <<>>
  /\ \A k \in 1..(Len(toks) - 1) : ~(IsString(toks[k]) /\ IsString(toks[k + 1]))

RECURSIVE SumLength(_)
SumLength(toks) ==
  IF toks = <<>> THEN 0 ELSE TokenLength(Head(toks)) + SumLength(Tail(toks))

\* payloads another surface's handleCopy can have produced: a normalised token
\* sequence with the length its walk counted (lines 273-308)
Payloads == { [tokens |-> ts, length |-> SumLength(ts)] : ts \in PayloadTokens }

\* clipboard texts that lack what lines 320-325 ask for
Malformed ==
  { NoPayload, InvalidJSON,
    JSONText(FALSE, <<>>, TRUE, 1),
    JSONText(TRUE, <<Text(<<"a">>)>>, FALSE, 0),
    JSONText(TRUE, <<Reference("emp")>>, TRUE, 0) }

\* the well-formed texts the clipboard can hold at a paste over [start, end):
\* a payload of Payloads, or what handleCopy serialised from the current
\* tokens for this very selection or for the whole value
Clipboards(start, end) ==
  { stringify(c) : c \in Payloads }
  \cup (IF start # end THEN {stringify(CopyPayload(tokens, start, end))} ELSE {})
  \cup (IF shown # <<>> THEN {stringify(CopyPayload(tokens, 0, Len(shown)))} ELSE {})

Init ==
  /\ tokens = <<>>
  /\ data = SmallData
  /\ lists = SmallLists
  /\ caseSensitive = FALSE
  /\ suggestions = <<>>
  /\ caretPos = -1
  /\ insertTokenPos = [tokenIndex |-> -1, caretPos |-> -1]
  /\ hoveredSuggestion = 0
  /\ mouseDownOnSuggestion = FALSE
  /\ shown = <<>>
  /\ last = Idle

\* the handlers that do not depend on what is typed or pasted
Others ==
  \/ \E inputType \in {"deleteByDrag", "insertFromDrop"} : beforeInputDrag(inputType)
  \/ \E se \in Selections : handleCopy(se[1], se[2])
  \/ keyDownArrowUp
  \/ keyDownArrowDown
  \/ \E key \in {"ArrowLeft", "ArrowRight"} : keyDownArrowLeftRight(key)
  \/ keyDownEscape
  \/ \E p \in SelectionStarts : keyDownEnter(p)
  \/ keyDownOther
  \/ handleClick
  \/ handleBlur
  \/ \E idx \in 0..(Len(suggestions) - 1) : suggestionMouseEnter(idx)
  \/ suggestionMouseDown
  \/ \E idx \in 0..(Len(suggestions) - 1), p \in SelectionStarts : suggestionSelect(idx, p)
  \/ render

Next ==
  \/ \E se \in Selections, text \in TypedTexts :
       beforeInputData("insertText", text, se[1], se[2], MaxLen)
  \/ \E se \in Selections, inputType \in {"deleteContentBackward", "deleteContentForward"} :
       beforeInputNull(inputType, se[1], se[2], MaxLen)
  \/ \E se \in Selections : handleCut(se[1], se[2], MaxLen)
  \/ \E pasteDataStr \in Malformed : handlePaste(pasteDataStr, 0, 0, MaxLen)
  \/ \E se \in Selections : \E pasteDataStr \in Clipboards(se[1], se[2]) :
       handlePaste(pasteDataStr, se[1], se[2], MaxLen)
  \/ Others

Spec == Init /\ [][Next]_vars

----------------------------------------------------------------------------
(* A second configuration: the dictionary {ann: Anna, bob: Bob} under one  *)
(* list with the default trigger, both settings of caseSensitive, and a    *)
(* user who types whole words at the end of the value, picks suggestions,  *)
(* drags, and pastes from a clipboard that holds no usable payload.        *)

WordData ==
  ("ann" :> <<"A", "n", "n", "a">>) @@ ("bob" :> <<"B", "o", "b">>)

WordLists == << DefaultList(<<"ann", "bob">>) >>

\* "hello ", "@", "An" and "an"
WordTexts ==
  { <<"h", "e", "l", "l", "o", " ">>, <<"@">>, <<"A", "n">>, <<"a", "n">> }

InitWords ==
  /\ tokens = <<>>
  /\ data = WordData
  /\ lists = WordLists
  /\ caseSensitive \in BOOLEAN
  /\ suggestions = <<>>
  /\ caretPos = -1
  /\ insertTokenPos = [tokenIndex |-> -1, caretPos |-> -1]
  /\ hoveredSuggestion = 0
  /\ mouseDownOnSuggestion = FALSE
  /\ shown = <<>>
  /\ last = Idle

\* where this user puts the caret: at the end of the value, or at its start
\* to open the suggestions in front of what is there
CaretAtEnd == Len(shown)
CaretAtStart == 0

NextWords ==
  \/ \E text \in WordTexts :
       beforeInputData("insertText", text, CaretAtEnd, CaretAtEnd, MaxWordLen)
  \/ beforeInputData("insertText", <<"@">>, CaretAtStart, CaretAtStart, MaxWordLen)
  \/ \E inputType \in {"deleteByDrag", "insertFromDrop"} : beforeInputDrag(inputType)
  \/ \E pasteDataStr \in Malformed :
       handlePaste(pasteDataStr, CaretAtEnd, CaretAtEnd, MaxWordLen)
  \/ keyDownArrowUp
  \/ keyDownArrowDown
  \/ keyDownEscape
  \/ \E p \in {CaretAtStart + 1, CaretAtEnd} : keyDownEnter(p)
  \/ \E idx \in 0..(Len(suggestions) - 1), p \in {CaretAtStart + 1, CaretAtEnd} :
       suggestionSelect(idx, p)
  \/ render

SpecWords == InitWords /\ [][NextWords]_vars

----------------------------------------------------------------------------
(* A third configuration: one list whose trigger matches like the default  *)
(* one but has no capture group, under both settings of caseSensitive.     *)

NoGroupLists == << [trigger |-> noGroupTrigger, items |-> <<"ann">>] >>

InitNoGroup ==
  /\ tokens = <<>>
  /\ data = SmallData
  /\ lists = NoGroupLists
  /\ caseSensitive \in BOOLEAN
  /\ suggestions = <<>>
  /\ caretPos = -1
  /\ insertTokenPos = [tokenIndex |-> -1, caretPos |-> -1]
  /\ hoveredSuggestion = 0
  /\ mouseDownOnSuggestion = FALSE
  /\ shown = <<>>
  /\ last = Idle

NextNoGroup ==
  \/ \E se \in Selections, text \in TypedTexts :
       beforeInputData("insertText", text, se[1], se[2], MaxLen)
  \/ \E se \in Selections, inputType \in {"deleteContentBackward", "deleteContentForward"} :
       beforeInputNull(inputType, se[1], se[2], MaxLen)
  \/ \E se \in Selections : handleCut(se[1], se[2], MaxLen)
  \/ render

SpecNoGroup == InitNoGroup /\ [][NextNoGroup]_vars

----------------------------------------------------------------------------
(* Two beforeinput events without a render of the host between them.        *)
(* tokens is a prop, beforeInputCallback closes over it (dependency list,   *)
(* line 256) and the listener is replaced by the effect of lines 258-264,   *)
(* which runs after a render only. A second event dispatched before that    *)
(* render runs the old callback: it walks the tokens of the last render,    *)
(* reads the value and the selection of the element, which the prevented    *)
(* first event left untouched, and hands setTokens a sequence, not an       *)
(* updater (line 184).                                                      *)

beforeInputUnrendered(inputType, text, maxLen) ==
  /\ last.kind = "insertText"
  /\ last.prevented
  /\ \E loc \in {Locate(last.from, shown, last.start, last.end)} :
     \E r \in {updateTokensAndSuggestionsOver(last.from, loc.head, <<Text(text)>>,
                                            Len(text), loc.tail, last.start,
                                            loc.i, loc.j)} :
      /\ Len(value(r.newTokens)) <= maxLen
      /\ tokens' = r.newTokens
      /\ suggestions' = r.suggestions
      /\ hoveredSuggestion' = r.hoveredSuggestion
      /\ mouseDownOnSuggestion' = r.mouseDownOnSuggestion
      /\ caretPos' = r.caretPos
      /\ insertTokenPos' = r.insertTokenPos
      /\ last' = [Event(inputType) EXCEPT !.start = last.start, !.end = last.end,
                                          !.ins = <<Text(text)>>, !.len = Len(text),
                                          !.threw = r.threw, !.prevented = TRUE,
                                          !.from = last.from]
      /\ UNCHANGED <<props, shown>>

NextUnrendered ==
  \/ \E se \in Selections, text \in TypedTexts :
       beforeInputData("insertText", text, se[1], se[2], MaxLen)
  \/ \E text \in TypedTexts : beforeInputUnrendered("insertText", text, MaxLen)
  \/ render

SpecUnrendered == Init /\ [][NextUnrendered]_vars

----------------------------------------------------------------------------
(* The locator, the splice engine and the matcher as functions of the      *)
(* tokens prop: the host passes any normalised sequence of at most         *)
(* MaxTokens tokens over a dictionary with an empty display text,          *)
(* under a list of at and ann whose trigger lets the captured text hold    *)
(* markers and a list of ann with the default trigger, and                 *)
(* the user makes one edit that splices a single text token.               *)

DrawnData ==
  ("ann" :> <<"A", "a">>) @@ ("at" :> <<"@", "A">>) @@ ("emp" :> <<>>)

DrawnLists ==
  << [trigger |-> atAnyTrigger, items |-> <<"at", "ann">>], DefaultList(<<"ann">>) >>

DrawnTokens ==
  { Text(<<"@">>), Text(<<"a">>), Text(<<"@", "@">>),
    Reference("ann"), Reference("at"), Reference("emp") }

DrawnTexts == { <<"@">>, <<"A">> }

\* the longest flat value an edit of a drawn sequence can leave
DrawnCap == 2 * MaxTokens + 1

InitDrawn ==
  /\ tokens \in {s \in UNION {[1..n -> DrawnTokens] : n \in 0..MaxTokens} :
                   Normalized(s)}
  /\ data = DrawnData
  /\ lists = DrawnLists
  /\ caseSensitive \in BOOLEAN
  /\ suggestions = <<>>
  /\ caretPos = -1
  /\ insertTokenPos = [tokenIndex |-> -1, caretPos |-> -1]
  /\ hoveredSuggestion = 0
  /\ mouseDownOnSuggestion = FALSE
  /\ shown = value(tokens)
  /\ last = Idle

NextDrawn ==
  \/ \E se \in Selections, text \in DrawnTexts :
       beforeInputData("insertText", text, se[1], se[2], DrawnCap)
  \/ \E se \in Selections, inputType \in {"deleteContentBackward", "deleteContentForward"} :
       beforeInputNull(inputType, se[1], se[2], DrawnCap)
  \/ \E se \in Selections : handleCut(se[1], se[2], DrawnCap)

SpecDrawn == InitDrawn /\ [][NextDrawn]_vars

----------------------------------------------------------------------------
(* Moving through a list of several suggestions: the dictionary and the    *)
(* lists of the drawn sequences, a value that starts empty, and a user who *)
(* types, deletes, moves the hover with the arrow keys and the mouse,      *)
(* closes the list and applies suggestions.                                *)

InitHover ==
  /\ tokens = <<>>
  /\ data = DrawnData
  /\ lists = DrawnLists
  /\ caseSensitive = FALSE
  /\ suggestions = <<>>
  /\ caretPos = -1
  /\ insertTokenPos = [tokenIndex |-> -1, caretPos |-> -1]
  /\ hoveredSuggestion = 0
  /\ mouseDownOnSuggestion = FALSE
  /\ shown = <<>>
  /\ last = Idle

NextHover ==
  \/ \E se \in Selections, text \in DrawnTexts :
       beforeInputData("insertText", text, se[1], se[2], MaxLen)
  \/ \E se \in Selections, inputType \in {"deleteContentBackward", "deleteContentForward"} :
       beforeInputNull(inputType, se[1], se[2], MaxLen)
  \/ keyDownArrowUp
  \/ keyDownArrowDown
  \/ keyDownEscape
  \/ \E p \in SelectionStarts : keyDownEnter(p)
  \/ \E idx \in 0..(Len(suggestions) - 1) : suggestionMouseEnter(idx)
  \/ \E idx \in 0..(Len(suggestions) - 1), p \in SelectionStarts : suggestionSelect(idx, p)
  \/ render

SpecHover == InitHover /\ [][NextHover]_vars

----------------------------------------------------------------------------
(* Properties.  A state with last # Idle is the state a handler left:      *)
(* last holds what the handler was given, shown the flat value it ran on.  *)

\* the kinds of the edits that insert text only
PureTextKinds ==
  {"insertText", "deleteContentBackward", "deleteContentForward", "cut"}

\* flat[0..start) followed by text followed by flat[end..)
Replaced(flat, start, end, text) ==
  SubSeq(flat, 1, start) \o text \o SubSeq(flat, Max(end, 0) + 1, Len(flat))

RECURSIVE Offset(_, _)
\* the flat offset at which the k-th token of toks starts
Offset(toks, k) ==
  IF k <= 1 THEN 0 ELSE Offset(toks, k - 1) + Len(TokenValue(toks[k - 1]))

\* offset p falls strictly inside the display text of a reference token
InsideReference(toks, p) ==
  \E k \in 1..Len(toks) :
    /\ ~IsString(toks[k])
    /\ Offset(toks, k) < p
    /\ p < Offset(toks, k) + Len(TokenValue(toks[k]))

\* C1: after every edit of any sequence of edits that starts from a sequence
\* satisfying I1 and I2, the committed token sequence has no two adjacent text
\* elements and no empty text element.
C1_NormalizedAfterEveryEdit == Normalized(tokens)

\* C2: after a pure-text edit (typed text, backward or forward deletion, cut)
\* the flat value of the new sequence is the old flat value with the selected
\* range replaced by the inserted text.
C2_FlatteningStability ==
  last.kind \in PureTextKinds =>
    value(tokens) = Replaced(shown, last.start, last.end, last.ins[1].text)

\* C3: pasting what copying a non-empty selection produced, over that same
\* selection, when neither end of the selection falls strictly inside a
\* reference token's display text, leaves the flat value as it was.
C3_CopyPasteRoundTrip ==
  [][(/\ last'.kind = "paste"
      /\ last'.start < last'.end
      /\ last'.got = stringify(CopyPayload(tokens, last'.start, last'.end))
      /\ ~InsideReference(tokens, last'.start)
      /\ ~InsideReference(tokens, last'.end))
     => value(tokens') = value(tokens)]_vars

\* C4: after an edit that inserts text of length L over the selection that
\* starts at start (L = 0 for deletions and cut, start one before the caret
\* for a collapsed backspace), the recorded caret offset is start + L.
C4_CaretAfterEdit ==
  last.kind \in PureTextKinds => caretPos = last.start + last.len

\* the text before the caret in the anchored text token
PreCaretText ==
  IF IsStringAt(tokens, insertTokenPos.tokenIndex)
  THEN SubSeq(tokens[insertTokenPos.tokenIndex + 1].text, 1, insertTokenPos.caretPos)
  ELSE <<>>

\* the default trigger matches pre from startPos on: a marker, then no marker
TriggersAt(pre, startPos) ==
  /\ startPos < Len(pre)
  /\ pre[startPos + 1] = "@"
  /\ \A k \in (startPos + 2)..Len(pre) : pre[k] # "@"

\* p is a prefix of s under the case rule in force
PrefixUnderCaseRule(p, s) ==
  /\ Len(p) <= Len(s)
  /\ \A k \in 1..Len(p) :
       IF caseSensitive THEN p[k] = s[k] ELSE LowerChar(p[k]) = LowerChar(s[k])

HelloAtAn == <<"h", "e", "l", "l", "o", " ", "@", "A", "n">>
HelloAtan == <<"h", "e", "l", "l", "o", " ", "@", "a", "n">>

\* C5: after typing, a key is suggested only where the trigger matches the
\* pre-caret text and the key's display text starts with the captured text
\* under the case rule; with {ann: Anna, bob: Bob} the pre-caret text
\* "hello @An" yields exactly {key: ann, startPos: 6}, and "hello @an" yields
\* nothing when caseSensitive is true.
C5_SuggestionsMatchPrefix ==
  last.kind = "insertText" =>
    /\ \A n \in 1..Len(suggestions) :
         /\ suggestions[n].key \in DOMAIN data
         /\ TriggersAt(PreCaretText, suggestions[n].startPos)
         /\ PrefixUnderCaseRule(
              SubSeq(PreCaretText, suggestions[n].startPos + 2, Len(PreCaretText)),
              data[suggestions[n].key])
    /\ PreCaretText = HelloAtAn => suggestions = <<[key |-> "ann", startPos |-> 6]>>
    /\ PreCaretText = HelloAtan /\ caseSensitive => suggestions = <<>>

C5_Witness ==
  /\ last.kind = "insertText"
  /\ ~caseSensitive
  /\ tokens = <<Text(HelloAtAn)>>
  /\ PreCaretText = HelloAtAn
  /\ suggestions = <<[key |-> "ann", startPos |-> 6]>>

\* the backward or forward deletion of the one character before the k-th
\* token, a reference that follows a text run
DeletesBeforeReference(k) ==
  /\ k \in 2..Len(tokens)
  /\ ~IsString(tokens[k])
  /\ IsString(tokens[k - 1])
  /\ last'.kind \in {"deleteContentBackward", "deleteContentForward"}
  /\ last'.end = Offset(tokens, k)
  /\ last'.start = last'.end - 1

\* toks with the last character of its k-th token, a text, removed, and the
\* token with it when nothing is left of it
WithoutLastCharacter(toks, k) ==
  IF Len(toks[k].text) <= 1
  THEN SubSeq(toks, 1, k - 1) \o SubSeq(toks, k + 1, Len(toks))
  ELSE [toks EXCEPT ![k] = Text(SubSeq(toks[k].text, 1, Len(toks[k].text) - 1))]

\* C6: deleting the single character before a reference token removes only
\* that character, drops the text run if it became empty, and leaves the
\* reference token and every other token unchanged and in order.
C6_DeletionBeforeReference ==
  [][\A k \in 1..Len(tokens) :
       DeletesBeforeReference(k) => tokens' = WithoutLastCharacter(tokens, k - 1)]_vars

\* toks with its text token at index idx replaced by T[0..startPos) if
\* startPos > 0, Reference(key), and T[innerOffset..) if non-empty
SplitAt(toks, idx, startPos, innerOffset, key) ==
  LET T == toks[idx + 1].text
  IN  SubSeq(toks, 1, idx)
      \o (IF startPos > 0 THEN <<Text(SubSeq(T, 1, startPos))>> ELSE <<>>)
      \o <<Reference(key)>>
      \o (IF innerOffset < Len(T) THEN <<Text(SubSeq(T, innerOffset + 1, Len(T)))>>
          ELSE <<>>)
      \o SubSeq(toks, idx + 2, Len(toks))

\* C7: applying a suggestion {key, startPos} at the anchor (tokenIndex,
\* innerOffset) on a text token T replaces exactly T by T[0..startPos) if
\* startPos > 0, Reference(key), T[innerOffset..) if non-empty; ["hello @An"]
\* with the caret at the end and {key: ann, startPos: 6} becomes
\* ["hello ", {key: ann}].
C7_ApplySuggestionSplits ==
  [][(last'.kind \in {"Enter", "select"}
        /\ IsStringAt(tokens, insertTokenPos.tokenIndex))
     => /\ tokens' = SplitAt(tokens, insertTokenPos.tokenIndex, last'.sg.startPos,
                             insertTokenPos.caretPos, last'.sg.key)
        /\ (/\ tokens = <<Text(HelloAtAn)>>
            /\ insertTokenPos = [tokenIndex |-> 0, caretPos |-> 9]
            /\ last'.sg = [key |-> "ann", startPos |-> 6])
           => tokens' = <<Text(SubSeq(HelloAtAn, 1, 6)), Reference("ann")>>]_vars

C7_Witness ==
  /\ last.kind = "Enter"
  /\ last.sg = [key |-> "ann", startPos |-> 6]
  /\ shown = HelloAtAn
  /\ insertTokenPos = [tokenIndex |-> 0, caretPos |-> 9]
  /\ tokens = <<Text(SubSeq(HelloAtAn, 1, 6)), Reference("ann")>>

\* what a handler that ignores its event leaves alone
EngineUnchanged ==
  UNCHANGED <<tokens, caretPos, insertTokenPos, suggestions, hoveredSuggestion,
              mouseDownOnSuggestion>>

\* C8: an edit event of kind deleteByDrag or insertFromDrop changes neither the
\* token sequence, the caret offset, the caret anchor, the suggestion list,
\* the hovered index nor the mouse-down latch.
C8_DragEventsIgnored ==
  [][last'.kind \in {"deleteByDrag", "insertFromDrop"} => EngineUnchanged]_vars

C8_Witness ==
  /\ last.kind \in {"deleteByDrag", "insertFromDrop"}
  /\ tokens # <<>>
  /\ suggestions # <<>>
  /\ hoveredSuggestion # 0

\* the clipboard text is absent, does not decode, or decodes to an object
\* whose tokens or length is missing or falsy
Undecodable(text) ==
  \/ text.form # "json"
  \/ ~text.hasTokens
  \/ ~text.hasLength
  \/ text.length = 0

\* C9: a paste whose payload is absent, fails to decode, or lacks tokens or
\* length changes neither the token sequence, the caret offset, the caret
\* anchor nor the suggestion list, and does not suppress the host's paste.
C9_MalformedPasteIgnored ==
  [][(last'.kind = "paste" /\ Undecodable(last'.got))
     => EngineUnchanged /\ ~last'.prevented]_vars

C9_Witness ==
  /\ last.kind = "paste"
  /\ last.got.form = "json"
  /\ last.got.hasTokens
  /\ ~last.got.hasLength
  /\ ~last.prevented
  /\ tokens # <<>>
  /\ suggestions # <<>>

\* C10: an edit completes although a list names a key that has no dictionary
\* entry: no error is raised, the caret offset is recorded, and the absent key
\* is not suggested.
C10_AbsentKeyNeverThrows ==
  (last.kind \in PureTextKinds \/ (last.kind = "paste" /\ last.prevented)) =>
    /\ ~last.threw
    /\ caretPos = last.start + last.len
    /\ \A n \in 1..Len(suggestions) : suggestions[n].key \in DOMAIN data

\* C11: when a trigger without a capture group matches the pre-caret text, in
\* either case mode the edit raises no error, the list contributes no
\* suggestion, and the caret offset and the caret anchor are recorded.
C11_NoGroupIsNoMatch ==
  last.kind \in PureTextKinds =>
    /\ ~last.threw
    /\ suggestions = <<>>
    /\ caretPos = last.start + last.len
    /\ insertTokenPos.caretPos >= 0

\* C12: an ArrowLeft or ArrowRight key press, an Escape key press, a click on
\* the surface, and a loss of focus that no mouse press on a suggestion
\* caused, each leave the suggestion list empty.
C12_CancellationClears ==
  last.kind \in {"ArrowLeft", "ArrowRight", "Escape", "click", "blur"} =>
    suggestions = <<>>

\* C13: every reference token of the sequence, whether its entry has a non-empty
\* display text, an empty one, or is absent, is counted by the locator and
\* the copy walk with the number of characters it contributes to the flat value.
C13_CountedLengthIsShownLength ==
  \A k \in 1..Len(tokens) :
    tokens[k].type = "ref" => TokenLength(tokens[k]) = Len(TokenValue(tokens[k]))

\* C14: every edit is spliced into the sequence the immediately preceding edit
\* produced, also when it is dispatched before the host has rendered that
\* sequence: the sequence the handler walks is the current one.
C14_EditsCompose ==
  [][(last'.kind \in PureTextKinds /\ last'.prevented) => last'.from = tokens]_vars

\* every token of toks has a positive display length
PositiveLengths(toks) == \A k \in 1..Len(toks) : TokenLength(toks[k]) > 0

\* offset p is where a token of toks starts, or the end of the flat value
OnBoundary(toks, p) == \E k \in 1..(Len(toks) + 1) : Offset(toks, k) = p

\* the edit that just ran walked a normalised sequence of tokens of positive
\* display length with a selection 0 <= start <= end <= |flat|
LocatedInPositiveSequence ==
  /\ last.kind \in PureTextKinds
  /\ last.prevented
  /\ Normalized(last.from)
  /\ PositiveLengths(last.from)
  /\ 0 <= last.start
  /\ last.start <= last.end
  /\ last.end <= Len(shown)

\* C15: on a normalised sequence of tokens of positive display length and a
\* selection 0 <= start <= end <= |flat|, the locator returns
\* i <= j <= length with flatten(seq[0..i)) + head = flat[0..start) and
\* tail + flatten(seq[j..)) = flat[end..); head is empty when start is on a
\* token boundary, i = length exactly when start = |flat|, and tail is empty
\* when end is on a token boundary or at the end.
C15_LocatorContract ==
  LocatedInPositiveSequence =>
    LET seq == last.from
        n   == Len(seq)
        loc == Locate(seq, shown, last.start, last.end)
    IN  /\ 0 <= loc.i
        /\ loc.i <= loc.j
        /\ loc.j <= n
        /\ value(SubSeq(seq, 1, loc.i)) \o loc.head = SubSeq(shown, 1, last.start)
        /\ loc.tail \o value(SubSeq(seq, loc.j + 1, n))
             = SubSeq(shown, last.end + 1, Len(shown))
        /\ OnBoundary(seq, last.start) => loc.head = <<>>
        /\ (loc.i = n) <=> (last.start = Len(shown))
        /\ OnBoundary(seq, last.end) => loc.tail = <<>>

\* a selection that starts and ends strictly inside reference tokens, with a
\* head and a tail cut off them
C15_Witness ==
  /\ LocatedInPositiveSequence
  /\ InsideReference(last.from, last.start)
  /\ InsideReference(last.from, last.end)
  /\ last.start < last.end
  /\ Locate(last.from, shown, last.start, last.end).head # <<>>
  /\ Locate(last.from, shown, last.start, last.end).tail # <<>>

\* C16: a splice of a single text token (typed insertion, backward or forward
\* deletion, cut) into a sequence that satisfies I1 and I2, over any
\* selection, also one that starts or ends strictly inside a reference,
\* leaves a sequence that satisfies I1 and I2.
C16_SingleTextSpliceNormalized ==
  (last.kind \in PureTextKinds /\ last.prevented /\ Normalized(last.from)) =>
    Normalized(tokens)

\* a deletion that ends strictly inside a reference between two texts: the
\* rest of the reference is merged with both and the empty insertion is gone
C16_Witness ==
  /\ last.kind \in {"deleteContentBackward", "cut"}
  /\ last.prevented
  /\ Normalized(last.from)
  /\ Len(last.from) = 3
  /\ ~IsString(last.from[2])
  /\ InsideReference(last.from, last.end)
  /\ last.start < Offset(last.from, 2)
  /\ Len(tokens) = 1
  /\ IsString(tokens[1])

\* the positions of pre at which the list's trigger matches the rest of pre and
\* the key's display text starts with the captured text
MatchPositions(list, key, pre) ==
  {p \in 0..(Len(pre) - 1) :
     LET m == match(SubstringFrom(pre, p), TriggerOf(list))
     IN  m.matched /\ PrefixUnderCaseRule(m.group, data[key])}

\* at most one suggestion for a key of a list: at the smallest such position
ExpectedOfKey(list, key, pre) ==
  LET ps == MatchPositions(list, key, pre)
  IN  IF ps = {} THEN <<>>
      ELSE <<[key |-> key, startPos |-> CHOOSE p \in ps : \A q \in ps : p <= q]>>

RECURSIVE ExpectedOfItems(_, _, _)
ExpectedOfItems(list, items, pre) ==
  IF items = <<>> THEN <<>>
  ELSE ExpectedOfKey(list, Head(items), pre) \o ExpectedOfItems(list, Tail(items), pre)

RECURSIVE ExpectedOfLists(_, _)
ExpectedOfLists(ls, pre) ==
  IF ls = <<>> THEN <<>>
  ELSE ExpectedOfItems(Head(ls), Head(ls).items, pre) \o ExpectedOfLists(Tail(ls), pre)

\* C19: the suggestions an edit produces hold, for each list in configuration
\* order and each key in item order, at most one suggestion, at the smallest
\* position where the list's trigger matches the pre-caret text from there on
\* and the key's display text starts with the captured text; nothing is
\* sorted or de-duplicated, so a key of two matching lists appears twice.
C19_SuggestionsInListThenKeyOrder ==
  (last.kind \in PureTextKinds /\ last.prevented /\ ~last.threw) =>
    suggestions = ExpectedOfLists(lists, PreCaretText)

\* pre-caret text "@@A": at matches from the first marker, ann from the
\* second, in the first list and again in the second
C19_Witness ==
  /\ last.kind = "insertText"
  /\ PreCaretText = <<"@", "@", "A">>
  /\ suggestions = << [key |-> "at", startPos |-> 0],
                      [key |-> "ann", startPos |-> 1],
                      [key |-> "ann", startPos |-> 1] >>

\* the kinds of the handlers that edit the sequence through the splice engine
EditKinds == PureTextKinds \cup {"paste"}

\* some list that holds the key has a trigger that matches s
TriggeredBy(key, s) ==
  \E n \in 1..Len(lists) :
    /\ \E k \in 1..Len(lists[n].items) : lists[n].items[k] = key
    /\ match(s, TriggerOf(lists[n])).matched

\* C17: after every edit the suggestions are those of that edit's splice
\* result: for each suggestion the token at the recorded caret anchor is a
\* text token, 0 <= startPos < innerOffset <= its length, and the trigger of
\* a list holding the key matches the token's text [startPos..innerOffset).
C17_SuggestionsOfThisEdit ==
  (last.kind \in EditKinds /\ last.prevented) =>
    \A k \in 1..Len(suggestions) :
      /\ IsStringAt(tokens, insertTokenPos.tokenIndex)
      /\ 0 <= suggestions[k].startPos
      /\ suggestions[k].startPos < insertTokenPos.caretPos
      /\ insertTokenPos.caretPos <= Len(tokens[insertTokenPos.tokenIndex + 1].text)
      /\ TriggeredBy(suggestions[k].key,
                     SubSeq(tokens[insertTokenPos.tokenIndex + 1].text,
                            suggestions[k].startPos + 1, insertTokenPos.caretPos))

\* C18: after a typed edit, a deletion, a cut or a paste with start >= 0,
\* if the token at the recorded caret anchor is a text token then the display
\* lengths of the tokens before it plus the inner offset equal
\* start + insertedLength, and the inner offset is at most the token's length.
C18_AnchorIsCaretOffset ==
  (/\ last.kind \in EditKinds
   /\ last.prevented
   /\ last.start >= 0
   /\ IsStringAt(tokens, insertTokenPos.tokenIndex)) =>
    /\ SumLength(SubSeq(tokens, 1, insertTokenPos.tokenIndex)) + insertTokenPos.caretPos
         = last.start + last.len
    /\ insertTokenPos.caretPos <= Len(tokens[insertTokenPos.tokenIndex + 1].text)

\* the selection [start, end) covers the whole display text of the k-th token
Covered(toks, k, start, end) ==
  /\ start <= Offset(toks, k)
  /\ Offset(toks, k) + Len(TokenValue(toks[k])) <= end

\* the part of the k-th token's display text that lies in [start, end)
Overlap(toks, k, start, end) ==
  SubSeq(value(toks), Max(start, Offset(toks, k)) + 1,
         Min(end, Offset(toks, k) + Len(TokenValue(toks[k]))))

RECURSIVE CopiedText(_, _, _, _)
\* what the tokens from the k-th on may contribute to a copy of [start, end):
\* a text its overlap, a reference its display text when covered, else nothing
CopiedText(toks, k, start, end) ==
  IF k > Len(toks) THEN <<>>
  ELSE (IF IsString(toks[k]) \/ Covered(toks, k, start, end)
        THEN Overlap(toks, k, start, end) ELSE <<>>)
       \o CopiedText(toks, k + 1, start, end)

\* the references among the first k tokens that [start, end) covers
CoveredReferences(toks, start, end) ==
  SelectSeq([k \in 1..Len(toks) |->
               IF ~IsString(toks[k]) /\ Covered(toks, k, start, end)
               THEN toks[k] ELSE Text(<<>>)],
            LAMBDA t : ~IsString(t))

\* C20: a copy of a non-empty selection puts a reference into the payload only
\* if the selection covers its whole display text, and a reference covered
\* only in part contributes nothing, neither the token nor any of its text.
C20_ReferencesCopiedWhole ==
  (last.kind = "copy" /\ last.start < last.end) =>
    /\ SelectSeq(last.clip.tokens, LAMBDA t : ~IsString(t))
         = CoveredReferences(tokens, last.start, last.end)
    /\ value(last.clip.tokens) = CopiedText(tokens, 1, last.start, last.end)

\* C21: a cut of a non-empty selection [start, end) hands the clipboard the
\* payload a copy of the same selection of the sequence before the removal
\* produces, and then removes the selection: the flat value is
\* flat[0..start) + flat[end..) and the recorded caret offset is start.
C21_CutIsCopyThenRemoval ==
  (last.kind = "cut" /\ last.start < last.end) =>
    /\ last.clip = CopyPayload(last.from, last.start, last.end)
    /\ value(tokens) = Replaced(shown, last.start, last.end, <<>>)
    /\ caretPos = last.start

\* where the reference of the applied suggestion sits in the new sequence
\* (counted from 1): at the anchor, behind the kept text when startPos > 0
InsertedAt ==
  insertTokenPos.tokenIndex + 1 + (IF last.sg.startPos # 0 THEN 1 ELSE 0)

\* C22: after a suggestion is applied, by Enter or by selecting an item, while
\* the list an edit opened is still open, the recorded caret offset is the
\* flat offset just behind the display text of the inserted reference.
C22_CaretAfterAppliedReference ==
  (last.kind \in {"Enter", "select"} /\ ~last.threw) =>
    caretPos = Offset(tokens, InsertedAt + 1)

\* C23: whenever the suggestion list is not empty the hovered index is one of
\* its indices 0..length-1, so Enter applies an existing suggestion.
C23_HoveredInRange ==
  suggestions # <<>> =>
    /\ 0 <= hoveredSuggestion
    /\ hoveredSuggestion <= Len(suggestions) - 1

\* ArrowDown on the last of three suggestions has wrapped to the first
C23_Witness ==
  /\ last.kind = "ArrowDown"
  /\ Len(suggestions) = 3
  /\ hoveredSuggestion = 0

\* the edit that just ran selected nothing and inserted nothing: a cut with a
\* collapsed selection, a collapsed backspace at offset 0 (the locator was
\* given start - 1), a collapsed forward-delete at the end (given end + 1)
SelectsNothingInsertsNothing ==
  /\ last.prevented
  /\ \/ last.kind = "cut" /\ last.start = last.end
     \/ last.kind = "deleteContentBackward" /\ last.start = -1 /\ last.end = 0
     \/ /\ last.kind = "deleteContentForward"
        /\ last.start = Len(shown)
        /\ last.end = Len(shown) + 1

\* C24: an edit that selects nothing and inserts nothing leaves the token
\* sequence as it was: the same tokens of the same kinds in the same order.
C24_EmptyEditChangesNothing ==
  SelectsNothingInsertsNothing => tokens = last.from

====
